---------------------------- MODULE Spec2Model ----------------------------
(***************************************************************************)
(* A model of src/bot.py: a Telegram bot that answers /start and /help,   *)
(* and for any other text message looks for the first URL, acknowledges,  *)
(* asks yt-dlp for a direct media URL and sends it back as a video.       *)
(*                                                                         *)
(* A text is a sequence of one-character strings.  Every webhook call is  *)
(* one request r, run to its end by its own asyncio.run on the thread the *)
(* HTTP server gives the call; the steps of different requests interleave *)
(* freely.                                                                 *)
(***************************************************************************)
EXTENDS Integers, Sequences, FiniteSets, TLC

(***************************************************************************)
(* Bounds of the model (not program constants).                            *)
(***************************************************************************)
NumRequests == 2
MaxPieces == 3

Requests == 1..NumRequests

(***************************************************************************)
(* Characters and words the texts are built from.                          *)
(***************************************************************************)
W_http == <<"h", "t", "t", "p">>
W_sep == <<":", "/", "/">>
W_https == W_http \o <<"s">>
SP == <<" ">>

U_a == W_https \o W_sep \o <<"a", "/", "x">>
U_b == W_http \o W_sep \o <<"b", "/", "y">>

T_hello == <<"h", "i", " ", "y", "o">>
T_url == U_b
T_two == <<"s", "e", "e", " ">> \o U_a \o <<" ", "&", " ">> \o U_b
T_start == <<"/", "s", "t", "a", "r", "t">>
T_start_args == T_start \o <<" ", "n", "o", "w">>
T_help == <<"/", "h", "e", "l", "p">>
T_foo == <<"/", "f", "o", "o">>

\* The inbound texts of the request model.
Texts == {T_hello, T_url, T_two, T_start, T_start_args, T_help, T_foo}

\* The pieces the parser's input texts are concatenated from.
Pieces == <<W_http \o W_sep, W_https \o W_sep, W_http \o W_sep \o <<"b">>,
            W_http \o <<":", "/">>, <<"a">>, <<"s">>, SP, <<"\n">>>>

RECURSIVE Flatten(_)
Flatten(ps) == IF ps = <<>> THEN <<>> ELSE Pieces[Head(ps)] \o Flatten(Tail(ps))

PieceSeqs == UNION {[1..n -> 1..Len(Pieces)] : n \in 0..MaxPieces}
ParserTexts == {Flatten(ps) : ps \in PieceSeqs}

(***************************************************************************)
(* The Message Parser: re.search(r'https?://[^\s]+', message_text).        *)
(* None (no match) is the empty sequence: a match is never empty.          *)
(***************************************************************************)
None == <<>>

\* \s of the pattern.
IsSpace(c) == c \in {" ", "\n", "\t"}

\* The literal lit matches text at position p.
LitAt(text, p, lit) ==
    /\ p + Len(lit) - 1 <= Len(text)
    /\ \A i \in 1..Len(lit) : text[p + i - 1] = lit[i]

\* https?:// at position p: the position after the scheme, 0 when it fails.
\* The optional s is tried first; without it :// must follow http directly.
SchemeEnd(text, p) ==
    IF LitAt(text, p, W_http)
    THEN IF LitAt(text, p + 4, <<"s">>) /\ LitAt(text, p + 5, W_sep) THEN p + 8
         ELSE IF LitAt(text, p + 4, W_sep) THEN p + 7
         ELSE 0
    ELSE 0

\* [^\s]+ from position e, greedy: the last position of the run, 0 when the
\* run is empty.
RECURSIVE RunEnd(_, _)
RunEnd(text, e) ==
    IF e > Len(text) \/ IsSpace(text[e]) THEN 0
    ELSE LET rest == RunEnd(text, e + 1) IN IF rest = 0 THEN e ELSE rest

\* The whole pattern anchored at p: the last position of the match, else 0.
MatchEnd(text, p) ==
    LET e == SchemeEnd(text, p) IN IF e = 0 THEN 0 ELSE RunEnd(text, e)

\* The scan of re.search: the leftmost position where the pattern matches.
RECURSIVE ScanFrom(_, _)
ScanFrom(text, p) ==
    IF p > Len(text) THEN None
    ELSE LET q == MatchEnd(text, p)
         IN  IF q # 0 THEN SubSeq(text, p, q) ELSE ScanFrom(text, p + 1)

\* A scan that keeps the last match instead of the first.
RECURSIVE ScanLast(_, _)
ScanLast(text, p) ==
    IF p < 1 THEN None
    ELSE LET q == MatchEnd(text, p)
         IN  IF q # 0 THEN SubSeq(text, p, q) ELSE ScanLast(text, p - 1)

re_search_last(text) == ScanLast(text, Len(text))

\* url_match = re.search(...); url_match.group(0), or None.
re_search(text) == ScanFrom(text, 1)

(***************************************************************************)
(* The fixed texts of the replies.                                         *)
(***************************************************************************)
GREETING == "Hi! Send me a link to a video, and I'll try to download it for you."
HELP_TEXT == "Just send me a video link. That's it!"
NO_URL_TEXT == "I didn't find a URL in your message. Please send a valid link."
ACK_TEXT == "Got it! Fetching the video, please wait..."
SIZE_TEXT == "Sorry, I found the video but failed to send it. The file might be too large for Telegram (max 50MB for bots by URL)."
NO_LINK_TEXT == "Sorry, I couldn't get a downloadable link for that video."
CAPTION == "Here's your video!"

(***************************************************************************)
(* Values of get_video_url: a media URL resolved from a page URL, None,    *)
(* or the empty string.  Unset is a local that has not been assigned.      *)
(***************************************************************************)
Media(u) == [tag |-> "media", of |-> u]
NoneResult == [tag |-> "none", of |-> <<>>]
EmptyStr == [tag |-> "empty", of |-> <<>>]
Unset == [tag |-> "unset", of |-> <<>>]

\* What yt-dlp does with the URL: info carries a 'url', info carries none,
\* info carries an empty one, or extract_info raises.
ExtractOutcomes == {"info_url", "info_no_url", "info_empty_url", "raises"}

\* get_video_url(url): info.get('url'), and None when anything raises.
get_video_url(url, outcome) ==
    CASE outcome = "info_url" -> Media(url)
      [] outcome = "info_no_url" -> NoneResult
      [] outcome = "info_empty_url" -> EmptyStr
      [] OTHER -> NoneResult

\* The test "video_url is not None": the empty string passes it.
Truthy_not_none(v) == v.tag # "none"

\* if video_url: a non-empty string is true, None and '' are false.
Truthy(v) == v.tag = "media"

(***************************************************************************)
(* Routing of application.process_update over the three handlers, in the   *)
(* order main registers them; the first whose filter accepts handles.      *)
(***************************************************************************)
\* filters.COMMAND: the message starts with a bot command, "/" and a name.
IsCommand(text) == Len(text) >= 2 /\ text[1] = "/" /\ ~IsSpace(text[2])

\* A command name that is everything after the slash, arguments included.
CommandNameWithArgs(text) == SubSeq(text, 2, Len(text))

\* The command's name: from after the slash to the first whitespace.
CommandName(text) == SubSeq(text, 2, RunEnd(text, 2))

\* The routing with the text handler registered first, for any text.
Route_text_first(text) ==
    IF Len(text) > 0 THEN "handle_message" ELSE "unhandled"

\* The routing with filters.TEXT alone on the text handler.
Route_any_text(text) ==
    IF IsCommand(text) /\ CommandName(text) = Tail(T_start) THEN "start"
    ELSE IF IsCommand(text) /\ CommandName(text) = Tail(T_help) THEN "help_command"
    ELSE IF Len(text) > 0 THEN "handle_message"
    ELSE "unhandled"

Route(text) ==
    IF IsCommand(text) /\ CommandName(text) = Tail(T_start) THEN "start"
    ELSE IF IsCommand(text) /\ CommandName(text) = Tail(T_help) THEN "help_command"
    ELSE IF Len(text) > 0 /\ ~IsCommand(text) THEN "handle_message"
    ELSE "unhandled"

VARIABLES
    update,         \* update[r]: the deserialized update of webhook call r
    pc,             \* pc[r]: where the processing of r stands
    url,            \* url[r]: the local url of handle_message
    result,         \* result[r]: the value get_video_url returned
    task,           \* task[r]: the task made by create_task at line 67
    video_url,      \* video_url[r]: the local video_url of handle_message
    extractorCalls, \* extractorCalls[r]: calls of get_video_url made for r
    fault,          \* fault[r]: the exception that left r's handler
    chatLog,        \* chatLog[c]: the sends the remote service got for chat c
    response,       \* response[r]: what webhook call r returned
    TOKEN,          \* the module's TOKEN: os.environ.get('TOKEN')
    main,           \* where main stands
    ptext,          \* the input of the parser run
    presult         \* the result of the parser run

vars == <<update, pc, url, result, task, video_url, extractorCalls, fault,
          chatLog, response, TOKEN, main, ptext, presult>>

rvars == <<update, pc, url, result, task, video_url, extractorCalls, fault,
           chatLog, response, TOKEN, main>>

\* The chat that webhook call r's update comes from: one chat per call.
ChatOf(r) == r
Chats == {ChatOf(r) : r \in Requests}

NoUpdate == [chat_id |-> 0, text |-> <<>>]
Unparsed == <<"?">>

RequestInit ==
    /\ update = [r \in Requests |-> NoUpdate]
    /\ pc = [r \in Requests |-> "idle"]
    /\ url = [r \in Requests |-> None]
    /\ result = [r \in Requests |-> Unset]
    /\ task = [r \in Requests |-> "none"]
    /\ video_url = [r \in Requests |-> Unset]
    /\ extractorCalls = [r \in Requests |-> 0]
    /\ fault = [r \in Requests |-> "none"]
    /\ chatLog = [c \in Chats |-> <<>>]
    /\ response = [r \in Requests |-> "none"]
    /\ TOKEN \in {"set", "absent"}
    /\ main = "L91"

Init == RequestInit /\ ptext = <<>> /\ presult = Unparsed

(***************************************************************************)
(* The outbound operations of the transport.  A send is recorded in the    *)
(* log of the chat it targets, with the request that issued it and whether *)
(* the remote service accepted it; a rejected send raises in the caller.   *)
(***************************************************************************)
Entry(r, kind, text, video, ok) ==
    [from |-> r, kind |-> kind, text |-> text, video |-> video, ok |-> ok]

\* The chat of the first request that has arrived, whatever request asks.
shared_chat_id(r) ==
    IF \E q \in Requests : update[q] # NoUpdate
    THEN update[CHOOSE q \in Requests : update[q] # NoUpdate].chat_id
    ELSE update[r].chat_id

\* update.message.reply_text replies into the chat of the update's message;
\* update.effective_chat.id is that same chat.
effective_chat_id(r) == update[r].chat_id

\* await update.message.reply_text(body)
reply_text(r, body, ok) ==
    chatLog' = [chatLog EXCEPT ![effective_chat_id(r)] =
                    Append(@, Entry(r, "text", body, Unset, ok))]

\* await context.bot.send_video(chat_id=..., video=..., caption=...)
send_video(r, video, ok) ==
    chatLog' = [chatLog EXCEPT ![effective_chat_id(r)] =
                    Append(@, Entry(r, "video", CAPTION, video, ok))]

\* The handler of r ends: it returns, or the exception exc leaves it.
Return(r) == pc' = [pc EXCEPT ![r] = "done"] /\ fault' = fault
Raise(r, exc) ==
    /\ pc' = [pc EXCEPT ![r] = "raised"]
    /\ fault' = [fault EXCEPT ![r] = exc]

(***************************************************************************)
(* main: build the application with TOKEN, register the webhook with the   *)
(* remote service, start the HTTP listener.  Nothing in main catches an    *)
(* exception, so any of them ends the process.                             *)
(***************************************************************************)
MainStep(to) ==
    /\ main' = to
    /\ UNCHANGED <<update, pc, url, result, task, video_url, extractorCalls,
                   fault, chatLog, response, TOKEN, ptext, presult>>

\* Line 91: Application.builder().token(TOKEN).build().  The code itself
\* does not look at TOKEN; with None the builder of the transport library
\* either refuses the token here or hands it on to the first request.
Build ==
    /\ main = "L91"
    /\ \/ TOKEN = "absent" /\ MainStep("crashed")
       \/ MainStep("L116")

\* The setup that goes on when set_webhook has raised.
SetWebhook_swallow ==
    /\ main = "L116"
    /\ MainStep("L118")

\* Lines 101-102 and 115-116: loop.run_until_complete(setup()), that is
\* bot.set_webhook(url=WEBHOOK_URL).  The remote service accepts the call
\* only from a bot it knows by its token; a refused or failed call raises.
SetWebhook ==
    /\ main = "L116"
    /\ \E ok \in BOOLEAN :
         /\ ok => TOKEN = "set"
         /\ MainStep(IF ok THEN "L118" ELSE "crashed")

\* Line 118: app.run(host='0.0.0.0', port=PORT): the listener is up.
AppRun ==
    /\ main = "L118"
    /\ MainStep("serving")

(***************************************************************************)
(* webhook and the dispatch of process_update.                             *)
(***************************************************************************)
\* update = Update.de_json(request.get_json(force=True), application.bot)
Webhook(r) ==
    /\ main = "serving"
    /\ pc[r] = "idle"
    /\ \E text \in Texts :
         update' = [update EXCEPT ![r] = [chat_id |-> ChatOf(r), text |-> text]]
    /\ pc' = [pc EXCEPT ![r] = "process_update"]
    /\ UNCHANGED <<url, result, task, video_url, extractorCalls, fault,
                   chatLog, ptext, presult, response, TOKEN, main>>

\* application.process_update(update): the first matching handler runs.
ProcessUpdate(r) ==
    /\ pc[r] = "process_update"
    /\ pc' = [pc EXCEPT ![r] = Route(update[r].text)]
    /\ UNCHANGED <<update, url, result, task, video_url, extractorCalls,
                   fault, chatLog, ptext, presult, response, TOKEN, main>>

(***************************************************************************)
(* start and help_command.                                                 *)
(***************************************************************************)
Start(r) ==
    /\ pc[r] = "start"
    /\ \E ok \in BOOLEAN :
         /\ reply_text(r, GREETING, ok)
         /\ IF ok THEN Return(r) ELSE Raise(r, "TelegramError")
    /\ UNCHANGED <<update, url, result, task, video_url, extractorCalls, ptext, presult, response, TOKEN, main>>

HelpCommand(r) ==
    /\ pc[r] = "help_command"
    /\ \E ok \in BOOLEAN :
         /\ reply_text(r, HELP_TEXT, ok)
         /\ IF ok THEN Return(r) ELSE Raise(r, "TelegramError")
    /\ UNCHANGED <<update, url, result, task, video_url, extractorCalls, ptext, presult, response, TOKEN, main>>

(***************************************************************************)
(* handle_message, one action per stretch of code between two awaits.      *)
(***************************************************************************)
\* The no-URL branch without its return: the acknowledgment follows.
HandleNoUrl_fallthrough(r) ==
    /\ pc[r] = "handle_message"
    /\ re_search(update[r].text) = None
    /\ chatLog' = [chatLog EXCEPT ![effective_chat_id(r)] =
                      Append(Append(@, Entry(r, "text", NO_URL_TEXT, Unset, TRUE)),
                             Entry(r, "text", ACK_TEXT, Unset, TRUE))]
    /\ Return(r)
    /\ UNCHANGED <<update, url, result, task, video_url, extractorCalls, ptext, presult, response, TOKEN, main>>

\* Lines 52-59: no URL in the text: one reply, then return.
HandleNoUrl(r) ==
    /\ pc[r] = "handle_message"
    /\ re_search(update[r].text) = None
    /\ \E ok \in BOOLEAN :
         /\ reply_text(r, NO_URL_TEXT, ok)
         /\ IF ok THEN Return(r) ELSE Raise(r, "TelegramError")
    /\ UNCHANGED <<update, url, result, task, video_url, extractorCalls, ptext, presult, response, TOKEN, main>>

\* The handler going to the extractor without the acknowledgment.
HandleAck_unacknowledged(r) ==
    /\ pc[r] = "handle_message"
    /\ re_search(update[r].text) # None
    /\ url' = [url EXCEPT ![r] = re_search(update[r].text)]
    /\ pc' = [pc EXCEPT ![r] = "L67_call"]
    /\ UNCHANGED <<update, result, task, video_url, extractorCalls, fault,
                   chatLog, ptext, presult, response, TOKEN, main>>

\* Lines 52-64: a URL is found: url = url_match.group(0), then the
\* acknowledgment.  Nothing catches a failure of this send.
HandleAck(r) ==
    /\ pc[r] = "handle_message"
    /\ re_search(update[r].text) # None
    /\ url' = [url EXCEPT ![r] = re_search(update[r].text)]
    /\ \E ok \in BOOLEAN :
         /\ reply_text(r, ACK_TEXT, ok)
         /\ IF ok
            THEN pc' = [pc EXCEPT ![r] = "L67_call"] /\ fault' = fault
            ELSE Raise(r, "TelegramError")
    /\ UNCHANGED <<update, result, task, video_url, extractorCalls, ptext, presult, response, TOKEN, main>>

\* Line 67, the argument of create_task: get_video_url(url) is a plain call
\* of a plain function, so it runs here, in the handler, before any task
\* exists.
CallExtractor(r) ==
    /\ pc[r] = "L67_call"
    /\ extractorCalls' = [extractorCalls EXCEPT ![r] = @ + 1]
    /\ pc' = [pc EXCEPT ![r] = "in_get_video_url"]
    /\ UNCHANGED <<update, url, result, task, video_url, fault, chatLog, ptext, presult, response, TOKEN, main>>

\* Lines 33-48: get_video_url returns to line 67.
GetVideoUrl(r) ==
    /\ pc[r] = "in_get_video_url"
    /\ \E outcome \in ExtractOutcomes :
         result' = [result EXCEPT ![r] = get_video_url(url[r], outcome)]
    /\ pc' = [pc EXCEPT ![r] = "L67_await"]
    /\ UNCHANGED <<update, url, task, video_url, extractorCalls, fault,
                   chatLog, ptext, presult, response, TOKEN, main>>

\* The await trying the extractor again when it got None.
AwaitTask_retry(r) ==
    /\ pc[r] = "L67_await"
    /\ task' = [task EXCEPT ![r] = "done"]
    /\ video_url' = [video_url EXCEPT ![r] = result[r]]
    /\ pc' = [pc EXCEPT ![r] = IF result[r] = NoneResult THEN "L67_call"
                                ELSE "L69"]
    /\ UNCHANGED <<update, url, result, extractorCalls, fault, chatLog,
                   ptext, presult, response, TOKEN, main>>

\* Line 67, create_task and await: create_task receives the str or None
\* that get_video_url returned, not a coroutine.  Application.create_task
\* is the transport library's, outside the repository; asyncio refuses a
\* value that is not awaitable with a TypeError, which nothing in
\* handle_message catches.  Both outcomes the await can have are kept: the
\* TypeError, and the value being handed on to line 69 as the rest of the
\* handler expects.
AwaitTask(r) ==
    /\ pc[r] = "L67_await"
    /\ \/ /\ task' = [task EXCEPT ![r] = "failed"]
          /\ Raise(r, "TypeError")
          /\ video_url' = video_url
       \/ /\ task' = [task EXCEPT ![r] = "done"]
          /\ video_url' = [video_url EXCEPT ![r] = result[r]]
          /\ pc' = [pc EXCEPT ![r] = "L69"]
          /\ fault' = fault
    /\ UNCHANGED <<update, url, result, extractorCalls, chatLog, ptext, presult, response, TOKEN, main>>

\* The except branch dropping the failure: except Exception: pass.
SendVideo_swallow(r) ==
    /\ pc[r] = "L69"
    /\ Truthy(video_url[r])
    /\ \E ok \in BOOLEAN : send_video(r, video_url[r], ok)
    /\ Return(r)
    /\ UNCHANGED <<update, url, result, task, video_url, extractorCalls, ptext, presult, response, TOKEN, main>>

\* Lines 69-78: video_url is true: send the video; a failure of the send is
\* caught and leads to the except branch.
SendVideo(r) ==
    /\ pc[r] = "L69"
    /\ Truthy(video_url[r])
    /\ \E ok \in BOOLEAN :
         /\ send_video(r, video_url[r], ok)
         /\ IF ok THEN Return(r)
            ELSE pc' = [pc EXCEPT ![r] = "L79"] /\ fault' = fault
    /\ UNCHANGED <<update, url, result, task, video_url, extractorCalls, ptext, presult, response, TOKEN, main>>

\* The except branch going back to the send after its reply.
SizeReply_retry(r) ==
    /\ pc[r] = "L79"
    /\ reply_text(r, SIZE_TEXT, TRUE)
    /\ pc' = [pc EXCEPT ![r] = "L69"]
    /\ UNCHANGED <<update, url, result, task, video_url, extractorCalls,
                   fault, ptext, presult, response, TOKEN, main>>

\* Lines 79-82: the reply of the except branch; its own failure is not
\* caught.
SizeReply(r) ==
    /\ pc[r] = "L79"
    /\ \E ok \in BOOLEAN :
         /\ reply_text(r, SIZE_TEXT, ok)
         /\ IF ok THEN Return(r) ELSE Raise(r, "TelegramError")
    /\ UNCHANGED <<update, url, result, task, video_url, extractorCalls, ptext, presult, response, TOKEN, main>>

\* Lines 83-86: video_url is None or empty: the failure reply.
NoLinkReply(r) ==
    /\ pc[r] = "L69"
    /\ ~Truthy(video_url[r])
    /\ \E ok \in BOOLEAN :
         /\ reply_text(r, NO_LINK_TEXT, ok)
         /\ IF ok THEN Return(r) ELSE Raise(r, "TelegramError")
    /\ UNCHANGED <<update, url, result, task, video_url, extractorCalls, ptext, presult, response, TOKEN, main>>

\* One step of the processing of request r.
RequestStep(r) ==
    \/ Webhook(r)
    \/ ProcessUpdate(r)
    \/ Start(r)
    \/ HelpCommand(r)
    \/ HandleNoUrl(r)
    \/ HandleAck(r)
    \/ CallExtractor(r)
    \/ GetVideoUrl(r)
    \/ AwaitTask(r)
    \/ SendVideo(r)
    \/ SizeReply(r)
    \/ NoLinkReply(r)

Next ==
    \/ Build
    \/ SetWebhook
    \/ AppRun
    \/ \E r \in Requests : RequestStep(r)

Spec == Init /\ [][Next]_vars

(***************************************************************************)
(* The webhook calls up to their return.  Spec follows every request to    *)
(* the end of its handler; SpecWebhook adds the return statement of the    *)
(* webhook function, line 113.                                             *)
(***************************************************************************)
\* A return as soon as the update is handed over, the processing still on.
WebhookReturn_early(r) ==
    /\ pc[r] # "idle"
    /\ response[r] = "none"
    /\ response' = [response EXCEPT ![r] = "ok"]
    /\ UNCHANGED <<update, pc, url, result, task, video_url, extractorCalls,
                   fault, chatLog, TOKEN, main, ptext, presult>>

\* Lines 112-113: asyncio.run returns when process_update has: the handler
\* has returned, or raised (process_update logs what a handler raises), or
\* no handler took the update.  Then return 'ok'.
WebhookReturn(r) ==
    /\ pc[r] \in {"done", "raised", "unhandled"}
    /\ response[r] = "none"
    /\ response' = [response EXCEPT ![r] = "ok"]
    /\ UNCHANGED <<update, pc, url, result, task, video_url, extractorCalls,
                   fault, chatLog, TOKEN, main, ptext, presult>>

NextWebhook ==
    \/ Build
    \/ SetWebhook
    \/ AppRun
    \/ \E r \in Requests : RequestStep(r)
    \/ \E r \in Requests : WebhookReturn(r)

SpecWebhook == Init /\ [][NextWebhook]_vars

(***************************************************************************)
(* The parser alone, over every text built from at most MaxPieces pieces.  *)
(***************************************************************************)
ParserInit == RequestInit /\ ptext \in ParserTexts /\ presult = Unparsed

ParseStep ==
    /\ presult = Unparsed
    /\ presult' = re_search(ptext)
    /\ UNCHANGED <<ptext, update, pc, url, result, task, video_url,
                   extractorCalls, fault, chatLog, response, TOKEN, main>>

SpecParser == ParserInit /\ [][ParseStep]_vars

(***************************************************************************)
(* Vocabulary of the properties, stated without the operators above.       *)
(***************************************************************************)
\* The positions where a URL starts: http:// or https:// with at least one
\* character that is not whitespace right after it.
UrlStarts(text) ==
    {p \in 1..Len(text) :
        \/ /\ LitAt(text, p, W_http \o W_sep)
           /\ p + 7 <= Len(text)
           /\ ~IsSpace(text[p + 7])
        \/ /\ LitAt(text, p, W_https \o W_sep)
           /\ p + 8 <= Len(text)
           /\ ~IsSpace(text[p + 8])}

\* s is the run of non-whitespace characters of text that starts at p and
\* cannot be extended.
IsMaximalRunAt(text, p, s) ==
    \E q \in p..Len(text) :
        /\ s = SubSeq(text, p, q)
        /\ \A i \in p..q : ~IsSpace(text[i])
        /\ q = Len(text) \/ IsSpace(text[q + 1])

\* The first URL of a text that has one.
FirstUrl(text) ==
    LET starts == UrlStarts(text)
        p == CHOOSE m \in starts : \A n \in starts : m <= n
        q == CHOOSE n \in p..Len(text) :
                /\ \A i \in p..n : ~IsSpace(text[i])
                /\ n = Len(text) \/ IsSpace(text[n + 1])
    IN  SubSeq(text, p, q)

\* The same for the texts of the request model, None where there is no URL.
FirstUrlOf == [t \in Texts |-> IF UrlStarts(t) = {} THEN None ELSE FirstUrl(t)]

\* The text is the command /name, alone or followed by arguments.
IsCommandNamed(text, name) ==
    /\ Len(text) >= Len(name) + 1
    /\ text[1] = "/"
    /\ SubSeq(text, 2, Len(name) + 1) = name
    /\ Len(text) = Len(name) + 1 \/ IsSpace(text[Len(name) + 2])

Arrived(r) == update[r] # NoUpdate
NonCommand(r) == Arrived(r) /\ update[r].text[1] # "/"
Finished(r) == pc[r] \in {"done", "raised"}

\* The sends request r issued, as positions <<chat, index>> of the logs.
SendsOf(r) ==
    {ci \in UNION {{<<c, i>> : i \in 1..Len(chatLog[c])} : c \in Chats} :
        chatLog[ci[1]][ci[2]].from = r}
SendCount(r) == Cardinality(SendsOf(r))
VideoSendsOf(r) == {ci \in SendsOf(r) : chatLog[ci[1]][ci[2]].kind = "video"}

\* What the chat sees of a send, and of a sequence of sends.
Shape(e) == <<e.kind, e.text, e.video>>
Shapes(es) == [i \in 1..Len(es) |-> Shape(es[i])]
TextShape(body) == <<"text", body, Unset>>
VideoShape(v) == <<"video", CAPTION, v>>

\* The sends of r that reached r's own chat, in order.
Sent(r) == Shapes(SelectSeq(chatLog[ChatOf(r)], LAMBDA e : e.from = r))

IsPrefix(s, t) == Len(s) <= Len(t) /\ SubSeq(t, 1, Len(s)) = s

C2_AckThenVideo ==
    \A r \in Requests :
        (Finished(r) /\ result[r].tag = "media") =>
            /\ Sent(r) = <<TextShape(ACK_TEXT), VideoShape(result[r])>>
            /\ SendCount(r) = 2

(***************************************************************************)
(* C3: when the text holds a URL and get_video_url returns None, the sends *)
(* of the finished handler are exactly the acknowledgment and then the     *)
(* "couldn't get a downloadable link" text; send_video is never called.    *)
(***************************************************************************)
C3_AckThenNoLink ==
    \A r \in Requests :
        (Finished(r) /\ result[r] = NoneResult) =>
            /\ Sent(r) = <<TextShape(ACK_TEXT), TextShape(NO_LINK_TEXT)>>
            /\ SendCount(r) = 2
            /\ VideoSendsOf(r) = {}

(***************************************************************************)
(* C4: for a non-command text without a URL the only outbound effect is    *)
(* one "no URL" reply: no acknowledgment, no call of get_video_url, no     *)
(* send_video, and the handler ends right after the reply.                 *)
(***************************************************************************)
C4_NoUrlSingleReply ==
    \A r \in Requests :
        (NonCommand(r) /\ UrlStarts(update[r].text) = {}) =>
            /\ extractorCalls[r] = 0
            /\ task[r] = "none"
            /\ VideoSendsOf(r) = {}
            /\ pc[r] \in {"process_update", "handle_message", "done", "raised"}
            /\ IF Finished(r)
               THEN Sent(r) = <<TextShape(NO_URL_TEXT)>> /\ SendCount(r) = 1
               ELSE SendCount(r) = 0

\* A message without a URL whose handling has ended.
C4_NoUrlAnswered ==
    \E r \in Requests :
        /\ NonCommand(r)
        /\ UrlStarts(update[r].text) = {}
        /\ Finished(r)
        /\ SendCount(r) = 1

\* A send_video of request r was rejected.
VideoFailed(r) == \E ci \in VideoSendsOf(r) : ~chatLog[ci[1]][ci[2]].ok

(***************************************************************************)
(* C5: once send_video has failed, the handler sends exactly one reply,    *)
(* the size notice, to the message's chat and ends; it neither calls       *)
(* send_video again nor get_video_url again, and it does not end without   *)
(* the notice.                                                             *)
(***************************************************************************)
C5_SizeReplyAfterFailedVideo ==
    \A r \in Requests :
        VideoFailed(r) =>
            /\ result[r].tag = "media"
            /\ extractorCalls[r] = 1
            /\ Cardinality(VideoSendsOf(r)) = 1
            /\ pc[r] \in {"L79", "done", "raised"}
            /\ Sent(r) = IF pc[r] = "L79"
                         THEN <<TextShape(ACK_TEXT), VideoShape(result[r])>>
                         ELSE <<TextShape(ACK_TEXT), VideoShape(result[r]),
                                TextShape(SIZE_TEXT)>>
            /\ SendCount(r) = Len(Sent(r))

\* A handler that has ended after its send_video failed.
C5_FailedVideoHandled == \E r \in Requests : VideoFailed(r) /\ Finished(r)

(***************************************************************************)
(* C6: the parser returns, for a text with at least one URL (http:// or    *)
(* https:// followed by characters that are not whitespace), the first one *)
(* by position, as the maximal run of non-whitespace characters from its   *)
(* scheme on, and None for a text without one; "see https://a/x &          *)
(* http://b/y" gives "https://a/x".                                        *)
(***************************************************************************)
C6_FirstUrlOrNone ==
    /\ re_search(T_two) = U_a
    /\ presult # Unparsed =>
          IF UrlStarts(ptext) = {}
          THEN presult = None
          ELSE /\ presult # None
               /\ \E p \in UrlStarts(ptext) :
                    /\ \A n \in UrlStarts(ptext) : p <= n
                    /\ IsMaximalRunAt(ptext, p, presult)

\* A parsed text with two URLs in two separate words.
C6_TwoUrlsParsed ==
    /\ presult # Unparsed
    /\ presult # None
    /\ \E p, n \in UrlStarts(ptext) :
          p < n /\ \E i \in p..n : IsSpace(ptext[i])

\* The complete reply sequences of one message handled on its own.
SoloRuns(text) ==
    IF IsCommandNamed(text, Tail(T_start)) THEN {<<TextShape(GREETING)>>}
    ELSE IF IsCommandNamed(text, Tail(T_help)) THEN {<<TextShape(HELP_TEXT)>>}
    ELSE IF text[1] = "/" THEN {<<>>}
    ELSE IF UrlStarts(text) = {} THEN {<<TextShape(NO_URL_TEXT)>>}
    ELSE {<<TextShape(ACK_TEXT)>>,
          <<TextShape(ACK_TEXT), VideoShape(Media(FirstUrl(text)))>>,
          <<TextShape(ACK_TEXT), VideoShape(Media(FirstUrl(text))),
            TextShape(SIZE_TEXT)>>,
          <<TextShape(ACK_TEXT), TextShape(NO_LINK_TEXT)>>}

SoloRunsOf == [t \in Texts |-> SoloRuns(t)]

(***************************************************************************)
(* C7: with one message per chat handled concurrently, every send lands in *)
(* the chat of the message that caused it, a video send carries the media  *)
(* resolved from that message's own first URL, and what each chat receives *)
(* is a run of the handler on its message alone, whatever the interleaving.*)
(***************************************************************************)
C7_NoCrossTalk ==
    \A r \in Requests :
        LET c == ChatOf(r) IN
        /\ \A i \in 1..Len(chatLog[c]) : chatLog[c][i].from = r
        /\ url[r] # None => url[r] = FirstUrlOf[update[r].text]
        /\ result[r].tag = "media" =>
              result[r] = Media(FirstUrlOf[update[r].text])
        /\ IF Arrived(r)
           THEN \E run \in SoloRunsOf[update[r].text] :
                    /\ IsPrefix(Shapes(chatLog[c]), run)
                    /\ pc[r] = "done" => Shapes(chatLog[c]) = run
           ELSE chatLog[c] = <<>>

\* Two chats, each with the video of its own, different, URL.
C7_TwoChatsServed ==
    \E r, q \in Requests :
        /\ r # q
        /\ VideoSendsOf(r) # {}
        /\ VideoSendsOf(q) # {}
        /\ result[r] # result[q]

\* The update of q has arrived and its handling has not ended.
InFlight(q) == Arrived(q) /\ pc[q] \notin {"done", "raised", "unhandled"}

(***************************************************************************)
(* C8: the extractor call is offloaded fire-and-await: while get_video_url *)
(* runs for a message, a task for it is pending and its handler is         *)
(* suspended on that task, the handler resumes with what the worker        *)
(* returned, and meanwhile every other in-flight handler can take a step.  *)
(***************************************************************************)
C8_FireAndAwait ==
    \A r \in Requests :
        /\ pc[r] = "in_get_video_url" =>
              /\ task[r] = "pending"
              /\ \A q \in Requests \ {r} : InFlight(q) => ENABLED RequestStep(q)
        /\ task[r] # "failed"

(***************************************************************************)
(* C9: no fault raised while a message is handled leaves handle_message:   *)
(* a failed acknowledgment, a failed extraction dispatch or await, a       *)
(* failed send_video and a failed final reply are all caught in the        *)
(* handler.                                                                *)
(***************************************************************************)
C9_NoFaultEscapes ==
    \A r \in Requests : NonCommand(r) => pc[r] # "raised" /\ fault[r] = "none"

\* The fixed text of the command a text carries.
FixedReply(text) ==
    IF IsCommandNamed(text, Tail(T_start)) THEN GREETING ELSE HELP_TEXT

(***************************************************************************)
(* C10: a /start event, with or without arguments, gives exactly one send, *)
(* the greeting; a /help event gives exactly one send, the usage text;     *)
(* neither calls get_video_url or send_video.                              *)
(***************************************************************************)
C10_CommandsOneFixedReply ==
    \A r \in Requests :
        (Arrived(r) /\ \/ IsCommandNamed(update[r].text, Tail(T_start))
                       \/ IsCommandNamed(update[r].text, Tail(T_help))) =>
            /\ extractorCalls[r] = 0
            /\ task[r] = "none"
            /\ VideoSendsOf(r) = {}
            /\ pc[r] \in {"process_update", "start", "help_command", "done",
                          "raised"}
            /\ IF Finished(r)
               THEN /\ Sent(r) = <<TextShape(FixedReply(update[r].text))>>
                    /\ SendCount(r) = 1
               ELSE SendCount(r) = 0

\* A /start with arguments and a /help, both answered.
C10_CommandsAnswered ==
    \E r, q \in Requests :
        /\ Arrived(r) /\ update[r].text = T_start_args /\ Finished(r)
        /\ Arrived(q) /\ update[q].text = T_help /\ Finished(q)

(***************************************************************************)
(* C11: when TOKEN is absent from the environment, main ends before the    *)
(* webhook is registered with the remote service and before the listener   *)
(* is up, and no request is ever served.                                   *)
(***************************************************************************)
C11_NoTokenNoService ==
    TOKEN = "absent" =>
        /\ main \in {"L91", "L116", "crashed"}
        /\ \A r \in Requests : ~Arrived(r) /\ pc[r] = "idle"
        /\ \A c \in Chats : chatLog[c] = <<>>

\* main has ended on the missing token.
C11_StartupFatal ==
    TOKEN = "absent" /\ main = "crashed"

\* The acknowledgment of line 64 went out for r and the transport took it.
AckAccepted(r) ==
    \E ci \in SendsOf(r) :
        /\ Shape(chatLog[ci[1]][ci[2]]) = TextShape(ACK_TEXT)
        /\ chatLog[ci[1]][ci[2]].ok

(***************************************************************************)
(* C12: no handler ends after the acknowledgment alone: a handler that has *)
(* ended after an accepted acknowledgment has issued a terminal send       *)
(* next, the video or the "couldn't get a downloadable link" text.         *)
(***************************************************************************)
C12_NeverAckAlone ==
    \A r \in Requests :
        (Finished(r) /\ AckAccepted(r)) =>
            /\ Len(Sent(r)) >= 2
            /\ Sent(r)[2] \in {VideoShape(result[r]), TextShape(NO_LINK_TEXT)}

(***************************************************************************)
(* C13: no retries: over the whole handling of a message get_video_url is  *)
(* called at most once, so at most one result is produced, and send_video  *)
(* is attempted at most once, whatever the extractor and the sends do.     *)
(***************************************************************************)
C13_NoRetries ==
    \A r \in Requests :
        /\ extractorCalls[r] <= 1
        /\ (extractorCalls[r] = 0 => result[r] = Unset)
        /\ Cardinality(VideoSendsOf(r)) <= 1

\* A handler that ended after a failed extraction, and one that ended
\* after a failed send_video, each with a single call and a single attempt.
C13_FailuresNotRetried ==
    \E r, q \in Requests :
        /\ Finished(r) /\ result[r] = NoneResult /\ extractorCalls[r] = 1
        /\ Finished(q) /\ VideoFailed(q)
        /\ extractorCalls[q] = 1 /\ Cardinality(VideoSendsOf(q)) = 1

\* The outcomes of the extractor that are failures: extract_info raises
\* (unsupported source, network error, no playable format, any exception
\* inside it), or its info has no 'url' entry.
FailureCauses == {"raises", "info_no_url"}

(***************************************************************************)
(* C14: get_video_url lets no fault out: for every failure cause it        *)
(* returns None; and the handler that got None from it ends with the       *)
(* "couldn't get a downloadable link" text as its last send, whatever the  *)
(* cause was, and without a send_video.                                    *)
(***************************************************************************)
C14_FaultsBecomeNoLink ==
    /\ \A u \in {U_a, U_b} : \A cause \in FailureCauses :
           get_video_url(u, cause) = NoneResult
    /\ \A r \in Requests :
           (Finished(r) /\ result[r] = NoneResult) =>
               /\ Sent(r) # <<>>
               /\ Sent(r)[Len(Sent(r))] = TextShape(NO_LINK_TEXT)
               /\ VideoSendsOf(r) = {}

(***************************************************************************)
(* C15: within one request get_video_url is called only after the          *)
(* acknowledgment of the same message has been sent, and with the first    *)
(* URL of the message's text; a send after the acknowledgment (the video   *)
(* or a failure text) is issued only after get_video_url has returned.     *)
(***************************************************************************)
C15_AckThenExtractThenReply ==
    \A r \in Requests :
        /\ extractorCalls[r] >= 1 =>
              /\ AckAccepted(r)
              /\ Sent(r)[1] = TextShape(ACK_TEXT)
              /\ url[r] = FirstUrlOf[update[r].text]
              /\ result[r] \in {Unset, NoneResult, EmptyStr,
                                Media(FirstUrlOf[update[r].text])}
        /\ pc[r] = "in_get_video_url" =>
              /\ Sent(r) = <<TextShape(ACK_TEXT)>>
              /\ result[r] = Unset
        /\ Len(Sent(r)) >= 2 =>
              /\ extractorCalls[r] = 1
              /\ result[r] # Unset
              /\ pc[r] \notin {"L67_call", "in_get_video_url", "L67_await"}

\* A message with two URLs whose handler has sent the video of the first.
C15_FirstOfTwoServed ==
    \E r \in Requests :
        /\ update[r].text = T_two
        /\ Sent(r) = <<TextShape(ACK_TEXT), VideoShape(Media(U_a))>>

\* The three handlers, the positions of each and the bodies each sends.
Handlers == {"start", "help_command", "handle_message"}
PositionsOf(h) ==
    IF h = "handle_message"
    THEN {"handle_message", "L67_call", "in_get_video_url", "L67_await",
          "L69", "L79"}
    ELSE {h}
BodiesOf(h) ==
    CASE h = "start" -> {GREETING}
      [] h = "help_command" -> {HELP_TEXT}
      [] OTHER -> {NO_URL_TEXT, ACK_TEXT, SIZE_TEXT, NO_LINK_TEXT, CAPTION}

\* The handlers that have run for r: r stands in one, or has sent its text.
RanFor(r) ==
    {h \in Handlers :
        \/ pc[r] \in PositionsOf(h)
        \/ \E ci \in SendsOf(r) : chatLog[ci[1]][ci[2]].text \in BodiesOf(h)}

(***************************************************************************)
(* C16: routing is exclusive, and total over text events: for every event  *)
(* at most one handler runs; once dispatched, a /start command has run     *)
(* start and nothing else, a /help command help_command and nothing else,  *)
(* and a text that is not a command handle_message and nothing else.       *)
(***************************************************************************)
C16_ExclusiveRouting ==
    \A r \in Requests :
        /\ Cardinality(RanFor(r)) <= 1
        /\ (Arrived(r) /\ pc[r] # "process_update") =>
              /\ IsCommandNamed(update[r].text, Tail(T_start)) =>
                    RanFor(r) = {"start"}
              /\ IsCommandNamed(update[r].text, Tail(T_help)) =>
                    RanFor(r) = {"help_command"}
              /\ NonCommand(r) => RanFor(r) = {"handle_message"}

\* A /start with arguments and a plain text, each ended in its handler.
C16_EachToItsHandler ==
    \E r, q \in Requests :
        /\ update[r].text = T_start_args /\ Finished(r) /\ RanFor(r) = {"start"}
        /\ update[q].text = T_hello /\ Finished(q)
        /\ RanFor(q) = {"handle_message"}

(***************************************************************************)
(* C17: a webhook call handles one update and returns 'ok' only when the   *)
(* processing of that update is over: at the return the update's handler   *)
(* is not in flight, no send and no extraction of it is still to come, and *)
(* a call that has not taken its update has not returned.                  *)
(***************************************************************************)
C17_OkAfterProcessing ==
    \A r \in Requests :
        response[r] = "ok" =>
            /\ Arrived(r)
            /\ ~InFlight(r)
            /\ pc[r] \in {"done", "raised", "unhandled"}
            /\ result[r] = Unset => extractorCalls[r] = 0
            /\ ~ENABLED RequestStep(r)

\* A call that returned after its handler had sent a video.
C17_ReturnedAfterVideo ==
    \E r \in Requests :
        /\ response[r] = "ok"
        /\ Len(Sent(r)) = 2
        /\ VideoSendsOf(r) # {}

OtherCommand(text) ==
    /\ Len(text) >= 2 /\ text[1] = "/" /\ ~IsSpace(text[2])
    /\ ~IsCommandNamed(text, Tail(T_start))
    /\ ~IsCommandNamed(text, Tail(T_help))

(***************************************************************************)
(* C19: a command other than /start and /help, such as /foo, is taken by   *)
(* none of the three handlers: no send is ever issued for it and           *)
(* get_video_url is never called for it.                                   *)
(***************************************************************************)
C19_UnknownCommandIgnored ==
    \A r \in Requests :
        (Arrived(r) /\ OtherCommand(update[r].text)) =>
            /\ pc[r] \in {"process_update", "unhandled"}
            /\ RanFor(r) = {}
            /\ SendCount(r) = 0
            /\ extractorCalls[r] = 0
            /\ result[r] = Unset

\* /foo has been dispatched and dropped while another request was answered.
C19_FooDropped ==
    \E r, q \in Requests :
        /\ update[r].text = T_foo /\ pc[r] = "unhandled"
        /\ Finished(q) /\ SendCount(q) >= 1

=============================================================================
